---------------------------- MODULE Spec2Model ----------------------------
(***************************************************************************)
(* Model of sketch_temp_mon.ino: the request loop of a one-connection HTTP *)
(* endpoint, its substring matcher (InStr), its URL tokenizer (GetParms,   *)
(* built on strtok) and its dispatcher (HandleParms).                      *)
(*                                                                         *)
(* C strings are sequences of one-character strings; the request buffer is *)
(* a function on 0..REQ_BUF_SZ-1 so that indices and pointers are the      *)
(* source's.  A pointer into the buffer is its index.                      *)
(***************************************************************************)
EXTENDS Integers, Sequences, FiniteSets, TLC

REQ_BUF_SZ == 30
NUM_SENSORS == 6
MAX_PARMS == 5
\* sizeof(label) for  char label[] = "";  -- the terminating zero byte only
LABEL_SZ == 1

\* bounds of the strings InStr is applied to on its own
MaxHayLen == 4
MaxNeedleLen == 3

NUL == "NUL"          \* the zero byte
CR == "\r"
LF == "\n"
NULLP == -1           \* the null pointer
UNINIT == -2          \* the indeterminate value of a slot never written
FAULT == <<"FAULT">>  \* dereferencing an indeterminate pointer trapped

Chars(s) == [k \in 1..Len(s) |-> SubSeq(s, k, k)]

Min(a, b) == IF a < b THEN a ELSE b

(***************************************************************************)
(* C string primitives on the request buffer.                              *)
(***************************************************************************)
RECURSIVE strlen(_, _)
strlen(buf, p) ==
  IF p >= REQ_BUF_SZ \/ buf[p] = NUL THEN 0 ELSE 1 + strlen(buf, p + 1)

\* the characters of the zero-terminated string that starts at p
CStr(buf, p) == [k \in 1..strlen(buf, p) |-> buf[p + k - 1]]

\* str[k] of a C string held as a sequence: its terminator follows the text
At(str, k) == IF k < Len(str) THEN str[k + 1] ELSE NUL

(***************************************************************************)
(* bool InStr(char *str1, const char *str2)                                *)
(***************************************************************************)
RECURSIVE InStrLoop(_, _, _, _)
InStrLoop(str1, str2, i, f) ==
  IF i < Len(str1)
    THEN IF At(str1, i) = At(str2, f)
           THEN IF Len(str2) = f + 1
                  THEN TRUE
                  ELSE InStrLoop(str1, str2, i + 1, f + 1)
           ELSE InStrLoop(str1, str2, i + 1, 0)
    ELSE FALSE

InStr(str1, str2) ==
  IF Len(str2) > Len(str1) THEN FALSE ELSE InStrLoop(str1, str2, 0, 0)

(***************************************************************************)
(* char *strtok(char *str, const char *delim), one delimiter character.    *)
(* start is str, or the saved position when str is NULL.  The result is    *)
(* the token's pointer (NULLP when none), the buffer with the delimiter    *)
(* that ended the token overwritten by zero, and the new saved position.   *)
(***************************************************************************)
RECURSIVE SkipDelim(_, _, _)
SkipDelim(buf, p, delim) ==
  IF p < REQ_BUF_SZ /\ buf[p] = delim THEN SkipDelim(buf, p + 1, delim) ELSE p

RECURSIVE ScanToken(_, _, _)
ScanToken(buf, p, delim) ==
  IF p < REQ_BUF_SZ /\ buf[p] # NUL /\ buf[p] # delim
    THEN ScanToken(buf, p + 1, delim)
    ELSE p

strtok(buf, str, save, delim) ==
  LET start == IF str = NULLP THEN save ELSE str
      tok   == SkipDelim(buf, start, delim)
      end   == ScanToken(buf, tok, delim)
  IN  IF tok >= REQ_BUF_SZ \/ buf[tok] = NUL
        THEN [word |-> NULLP, buf |-> buf, save |-> tok]
        ELSE IF end < REQ_BUF_SZ /\ buf[end] = delim
               THEN [word |-> tok, buf |-> [buf EXCEPT ![end] = NUL], save |-> end + 1]
               ELSE [word |-> tok, buf |-> buf, save |-> end]


(***************************************************************************)
(* int GetParms(char *req, char *parms[], int num_parms)                   *)
(* The result carries the tokenized buffer, the slots of parms as left by  *)
(* the call, the count returned, and the set of slot indices written.      *)
(***************************************************************************)
\* the loop with the  i < num_parms  test left out: every token is stored
RECURSIVE ParmLoopUnchecked(_, _, _, _, _, _, _)
ParmLoopUnchecked(buf, save, word, parms, i, num_parms, writes) ==
  IF word = NULLP
    THEN [buf |-> buf, parms |-> parms, n |-> i, writes |-> writes]
    ELSE LET t == strtok(buf, NULLP, save, "/")
         IN  ParmLoopUnchecked(t.buf, t.save, t.word,
                               IF i \in DOMAIN parms
                                 THEN [parms EXCEPT ![i] = word] ELSE parms,
                               i + 1, num_parms, writes \cup {i})

RECURSIVE ParmLoop(_, _, _, _, _, _, _)
ParmLoop(buf, save, word, parms, i, num_parms, writes) ==
  IF word = NULLP
    THEN [buf |-> buf, parms |-> parms, n |-> i, writes |-> writes]
    ELSE IF i < num_parms
           THEN LET t == strtok(buf, NULLP, save, "/")
                IN  ParmLoop(t.buf, t.save, t.word,
                             IF i \in DOMAIN parms
                               THEN [parms EXCEPT ![i] = word] ELSE parms,
                             i + 1, num_parms, writes \cup {i})
           ELSE [buf |-> buf, parms |-> parms, n |-> i, writes |-> writes]

GetParms(req, parms, num_parms) ==
  LET t1  == strtok(req, 0, NULLP, " ")
      t2  == strtok(t1.buf, NULLP, t1.save, " ")
      url == t2.word
      t3  == strtok(t2.buf, url, t2.save, "/")
  IN  ParmLoop(t3.buf, t3.save, t3.word, parms, 0, num_parms, {})

(***************************************************************************)
(* The sensors.  A reading is a number; NaN stands for the float           *)
(* not-a-number that the DHT driver returns when a read fails.             *)
(***************************************************************************)
NaN == -1

readTemperature(dht, S) == IF S THEN dht.tempF ELSE dht.tempC
readHumidity(dht) == dht.humidity

(***************************************************************************)
(* float HandleParms(char *parms[], int num_parms, DHT *sensors, int n)    *)
(* in three parts: the unit option, the sensor chain and the operation.    *)
(***************************************************************************)
\* the option block with  boolean f = false  as the initial value
ParseOptionCelsiusDefault(num_parms, opt) ==
  IF num_parms > 2
    THEN IF opt = Chars("c") THEN [f |-> FALSE, err |-> 0]
         ELSE IF opt = Chars("f") THEN [f |-> TRUE, err |-> 0]
         ELSE [f |-> FALSE, err |-> 2]
    ELSE [f |-> FALSE, err |-> 0]

\* the option block without its final else: an unknown option is no error
ParseOptionLenient(num_parms, opt) ==
  IF num_parms > 2
    THEN IF opt = Chars("c") THEN [f |-> FALSE, err |-> 0]
         ELSE [f |-> TRUE, err |-> 0]
    ELSE [f |-> TRUE, err |-> 0]

ParseOption(num_parms, opt) ==
  IF num_parms > 2
    THEN IF opt = Chars("c") THEN [f |-> FALSE, err |-> 0]
         ELSE IF opt = Chars("f") THEN [f |-> TRUE, err |-> 0]
         ELSE [f |-> TRUE, err |-> 2]
    ELSE [f |-> TRUE, err |-> 0]

SelectSensor(s, err) ==
  IF s = Chars("sensor0") THEN [sensor |-> 0, err |-> err]
  ELSE IF s = Chars("sensor1") THEN [sensor |-> 1, err |-> err]
  ELSE IF s = Chars("sensor2") THEN [sensor |-> 2, err |-> err]
  ELSE IF s = Chars("sensor3") THEN [sensor |-> 3, err |-> err]
  ELSE IF s = Chars("sensor4") THEN [sensor |-> 4, err |-> err]
  ELSE IF s = Chars("sensor5") THEN [sensor |-> 5, err |-> err]
  ELSE [sensor |-> UNINIT, err |-> 1]

\* the operation block with the humidity branch reading the temperature
DoOperationTempForHumidity(op, sensor, f, err, sensors) ==
  IF err = 0
    THEN IF op = Chars("temp") \/ op = Chars("humidity")
           THEN [ret |-> readTemperature(sensors[sensor], f), err |-> 0,
                 reads |-> {<<sensor, IF f THEN "tempF" ELSE "tempC">>}]
         ELSE [ret |-> 0, err |-> 3, reads |-> {}]
    ELSE [ret |-> 0, err |-> err, reads |-> {}]

DoOperation(op, sensor, f, err, sensors) ==
  IF err = 0
    THEN IF op = Chars("temp")
           THEN [ret |-> readTemperature(sensors[sensor], f), err |-> 0,
                 reads |-> {<<sensor, IF f THEN "tempF" ELSE "tempC">>}]
         ELSE IF op = Chars("humidity")
           THEN [ret |-> readHumidity(sensors[sensor]), err |-> 0,
                 reads |-> {<<sensor, "humidity">>}]
         ELSE [ret |-> 0, err |-> 3, reads |-> {}]
    ELSE [ret |-> 0, err |-> err, reads |-> {}]

(***************************************************************************)
(* parms is a local array of loop() that nothing initialises: a slot that  *)
(* GetParms did not write holds an indeterminate pointer.  g is what the   *)
(* build finds behind such a pointer: some text, or FAULT when the access  *)
(* traps.  uninit is the set of slots read while indeterminate.            *)
(***************************************************************************)
HandleParms(buf, parms, num_parms, sensors, g) ==
  LET Str(p) == IF p = UNINIT THEN g ELSE CStr(buf, p)
      s    == parms[0]
      op   == parms[1]
      o    == ParseOption(num_parms, IF num_parms > 2 THEN Str(parms[2]) ELSE <<>>)
      sel  == SelectSensor(Str(s), o.err)
      res  == DoOperation(Str(op), sel.sensor, o.f, sel.err, sensors)
      slots == {0, 1} \cup (IF num_parms > 2 THEN {2} ELSE {})
      fault == \/ Str(s) = FAULT
               \/ sel.err = 0 /\ Str(op) = FAULT
               \/ num_parms > 2 /\ Str(parms[2]) = FAULT
  IN  [ret    |-> IF fault THEN 0 ELSE res.ret,
       err    |-> IF fault THEN 0 ELSE res.err,
       reads  |-> IF fault THEN {} ELSE res.reads,
       uninit |-> {k \in slots : parms[k] = UNINIT},
       fault  |-> fault]

(***************************************************************************)
(* String format_data_short(DHT dht, int sensor) and                       *)
(* String format_data_long(DHT dht, String label): the fields in order.    *)
(***************************************************************************)
NanToZero(x) == IF x = NaN THEN 0 ELSE x

format_data_short(dht, sensor) ==
  <<sensor, NanToZero(readTemperature(dht, TRUE)),
            NanToZero(readTemperature(dht, FALSE)),
            NanToZero(readHumidity(dht))>>

format_data_long(dht, label) ==
  <<label, NanToZero(readTemperature(dht, TRUE)),
           NanToZero(readTemperature(dht, FALSE)),
           NanToZero(readHumidity(dht))>>

\* what sprintf(label, "DHT%d", j) writes, without the terminating zero
LabelText(j) == Chars("DHT") \o <<SubSeq("0123456789", j + 1, j + 1)>>

(***************************************************************************)
(* The if / else-if chain of loop() that picks the branch of the response. *)
(***************************************************************************)
\* the chain with the root test lacking the space that ends the path
RouteRootNoSpace(req) ==
  IF InStr(req, Chars("GET /")) THEN "root"
  ELSE IF InStr(req, Chars("GET /s")) THEN "sensor"
  ELSE IF InStr(req, Chars("GET /report ")) THEN "report"
  ELSE "none"

Route(req) ==
  IF InStr(req, Chars("GET / ")) THEN "root"
  ELSE IF InStr(req, Chars("GET /s")) THEN "sensor"
  ELSE IF InStr(req, Chars("GET /report ")) THEN "report"
  ELSE "none"

(***************************************************************************)
(* The requests a client sends and the states the sensors are in.          *)
(***************************************************************************)
SensorIds == 0..(NUM_SENSORS - 1)
Kinds == {"tempF", "tempC", "humidity"}

\* the reading of a sensor that answers: one value per sensor and quantity
Good(n, kind) ==
  100 * (n + 1) + (IF kind = "tempF" THEN 1 ELSE IF kind = "tempC" THEN 2 ELSE 3)

\* no read fails, one read fails, or every read fails
FailSets ==
  {{}} \cup {{<<n, k>>} : n \in SensorIds, k \in Kinds}
       \cup {SensorIds \X Kinds}

SensorsOf(F) ==
  [n \in SensorIds |->
     [k \in Kinds |-> IF <<n, k>> \in F THEN NaN ELSE Good(n, k)]]

SensorStates == {SensorsOf(F) : F \in FailSets}

SensorPaths ==
  UNION {{"/sensor" \o d \o "/temp", "/sensor" \o d \o "/temp/f",
          "/sensor" \o d \o "/temp/c", "/sensor" \o d \o "/humidity",
          "/sensor" \o d \o "/humidity/c", "/sensor" \o d \o "/humidity/f",
          "/sensor" \o d \o "/humidity/k"} : d \in {"0", "1", "2", "3", "4", "5"}}

Paths ==
  SensorPaths \cup
  {"/", "/report", "/reportx", "/report/x", "/x", "/favicon.ico",
   "/s", "/sensor0", "/sensor3/", "/sensor9", "/s/temp",
   "/sensor9/temp", "/sensor1/speed", "/sensor1/temp/k", "/sensor9/temp/k",
   "/sensor9/speed", "/sensor1/speed/k", "/sensor9/speed/k",
   "/sensor2/temp/c/x", "/sensor2/temp/k/x/y",
   "/segA/segB/segC", "/s/a/b/c/d", "/s/a/b/c/d/e", "/s/a/b/c/d/e/f",
   "/s//a", "/s/a/", "/sensor4//humidity",
   "/sensor5/humidity/and/more/text"}

\* hdr is a header line sent after the request line, "" when there is none
Requests ==
  {[path |-> p, hdr |-> ""] : p \in Paths} \cup
  {[path |-> p, hdr |-> "A: GET / "] : p \in {"/s", "/sensor0/temp", "/report", "/x"}}

\* the bytes of  GET <path> HTTP/1.1, the header line and the blank line
Bytes(r) ==
  Chars("GET ") \o Chars(r.path) \o Chars(" HTTP/1.1") \o <<CR, LF>> \o
  (IF r.hdr = "" THEN <<>> ELSE Chars(r.hdr) \o <<CR, LF>>) \o <<CR, LF>>

\* arguments for InStr applied on its own: the strings over {a, b}
RECURSIVE Strs(_)
Strs(n) ==
  IF n = 0 THEN {<<>>}
  ELSE LET S == Strs(n - 1)
       IN  S \cup {Append(t, c) : t \in S, c \in {"a", "b"}}

(***************************************************************************)
(* State.  pc is the position of loop(): "idle" before server.available()  *)
(* returns a client, "read" in the while loop, "header" once the blank     *)
(* line was read, "route" before the if / else-if chain, "footer" after    *)
(* it, "stop" at client.stop(), "fault" when the device trapped.  req,     *)
(* status, doc and body are the connection: the request sent, and what was *)
(* written to the client.                                                  *)
(* route, err, reads, uninit, parmWrites and labelBytes record what the    *)
(* branch did: the branch taken, the error code of HandleParms, the sensor *)
(* reads made, the slots of parms read while indeterminate, the slots of   *)
(* parms written, and the bytes written into label.                        *)
(* hay, needle, called and found are InStr applied on its own.             *)
(***************************************************************************)
VARIABLES pc, req, input, sensors, HTTP_req, i, currentLineIsBlank,
          parms, num_parms, response, status, doc, body,
          route, err, reads, uninit, parmWrites, labelBytes,
          hay, needle, called, found

vars == <<pc, req, input, sensors, HTTP_req, i, currentLineIsBlank,
          parms, num_parms, response, status, doc, body,
          route, err, reads, uninit, parmWrites, labelBytes,
          hay, needle, called, found>>

connVars == <<req, sensors>>
instrVars == <<hay, needle, called, found>>
branchVars ==
  <<parms, num_parms, response, route, err, reads, uninit, parmWrites, labelBytes>>

EmptyBuf == [k \in 0..(REQ_BUF_SZ - 1) |-> NUL]
NoParms == [k \in 0..(MAX_PARMS - 1) |-> UNINIT]

\* what the build may find behind an indeterminate pointer
Garbage == {Chars("temp"), Chars("humidity"), Chars("x"), FAULT}

LoopInit ==
  /\ pc = "idle"
  /\ req = [path |-> "/", hdr |-> ""]
  /\ input = <<>>
  /\ sensors = SensorsOf({})
  /\ HTTP_req = EmptyBuf
  /\ i = 0
  /\ currentLineIsBlank = TRUE
  /\ parms = NoParms
  /\ num_parms = UNINIT
  /\ response = UNINIT
  /\ status = <<>>
  /\ doc = "none"
  /\ body = <<>>
  /\ route = "none"
  /\ err = 0
  /\ reads = {}
  /\ uninit = {}
  /\ parmWrites = {}
  /\ labelBytes = 0

Init ==
  /\ LoopInit
  /\ hay = <<>>
  /\ needle = <<>>
  /\ called = FALSE
  /\ found = FALSE

\* server.available() returns a client
Accept ==
  /\ pc = "idle"
  /\ \E r \in Requests, d \in SensorStates :
       /\ req' = r
       /\ input' = Bytes(r)
       /\ sensors' = d
  /\ pc' = "read"
  /\ UNCHANGED <<HTTP_req, i, currentLineIsBlank, branchVars,
                 status, doc, body, instrVars>>

\* one pass of the while loop with a byte available
ReadByte ==
  /\ pc = "read"
  /\ input # <<>>
  /\ LET c == Head(input)
     IN  /\ input' = Tail(input)
         /\ IF i < REQ_BUF_SZ - 1
              THEN HTTP_req' = [HTTP_req EXCEPT ![i] = c] /\ i' = i + 1
              ELSE UNCHANGED <<HTTP_req, i>>
         /\ IF c = LF /\ currentLineIsBlank
              THEN pc' = "header" /\ UNCHANGED currentLineIsBlank
              ELSE /\ pc' = "read"
                   /\ currentLineIsBlank' =
                        IF c = LF THEN TRUE
                        ELSE IF c # CR THEN FALSE
                        ELSE currentLineIsBlank
  /\ UNCHANGED <<connVars, branchVars, status, doc, body, instrVars>>

\* client.connected() turns false before the request ended
Disconnect ==
  /\ pc = "read"
  /\ pc' = "stop"
  /\ UNCHANGED <<connVars, input, HTTP_req, i, currentLineIsBlank,
                 branchVars, status, doc, body, instrVars>>

\* the status line, the headers and the opening of the HTML document
SendHeader ==
  /\ pc = "header"
  /\ status' = Append(status, "HTTP/1.1 200 OK")
  /\ doc' = "open"
  /\ pc' = "route"
  /\ UNCHANGED <<connVars, input, HTTP_req, i, currentLineIsBlank,
                 branchVars, body, instrVars>>

ServeRoot ==
  /\ pc = "route"
  /\ Route(CStr(HTTP_req, 0)) = "root"
  /\ route' = "root"
  /\ body' = [j \in 1..6 |-> format_data_short(sensors[j - 1], j - 1)]
  /\ reads' = (0..5) \X Kinds
  /\ pc' = "footer"
  /\ UNCHANGED <<connVars, input, HTTP_req, i, currentLineIsBlank,
                 parms, num_parms, response, err, uninit, parmWrites,
                 labelBytes, status, doc, instrVars>>

ServeSensor ==
  /\ pc = "route"
  /\ Route(CStr(HTTP_req, 0)) = "sensor"
  /\ route' = "sensor"
  /\ LET t == GetParms(HTTP_req, parms, MAX_PARMS)
     IN  /\ HTTP_req' = t.buf
         /\ parms' = t.parms
         /\ num_parms' = t.n
         /\ parmWrites' = t.writes
         /\ \E g \in Garbage :
              LET h == HandleParms(t.buf, t.parms, t.n, sensors, g)
              IN  /\ uninit' = h.uninit
                  /\ reads' = h.reads
                  /\ err' = h.err
                  /\ IF h.fault
                       THEN pc' = "fault" /\ UNCHANGED <<response, body>>
                       ELSE /\ response' = h.ret
                            /\ body' = <<<<h.ret>>>>
                            /\ pc' = "footer"
  /\ UNCHANGED <<connVars, input, i, currentLineIsBlank, labelBytes,
                 status, doc, instrVars>>

\* label has LABEL_SZ bytes; sprintf writes the text and a zero byte.  A
\* write past the end of label lands on the neighbouring locals of loop():
\* the build either goes on unharmed or traps.
ServeReport ==
  /\ pc = "route"
  /\ Route(CStr(HTTP_req, 0)) = "report"
  /\ route' = "report"
  /\ labelBytes' = Len(LabelText(5)) + 1
  /\ \E outcome \in IF Len(LabelText(5)) + 1 > LABEL_SZ
                      THEN {"ok", "fault"} ELSE {"ok"} :
       IF outcome = "ok"
         THEN /\ body' = [j \in 1..6 |->
                            format_data_long(sensors[j - 1], LabelText(j - 1))]
              /\ reads' = (0..5) \X Kinds
              /\ pc' = "footer"
         ELSE /\ pc' = "fault"
              /\ UNCHANGED <<body, reads>>
  /\ UNCHANGED <<connVars, input, HTTP_req, i, currentLineIsBlank,
                 parms, num_parms, response, err, uninit, parmWrites,
                 status, doc, instrVars>>

\* no branch of the chain matches: the document has an empty body
ServeNone ==
  /\ pc = "route"
  /\ Route(CStr(HTTP_req, 0)) = "none"
  /\ pc' = "footer"
  /\ UNCHANGED <<connVars, input, HTTP_req, i, currentLineIsBlank,
                 branchVars, status, doc, body, instrVars>>

\* the closing of the document, i = 0, StrClear and break
Finish ==
  /\ pc = "footer"
  /\ doc' = "closed"
  /\ i' = 0
  /\ HTTP_req' = EmptyBuf
  /\ pc' = "stop"
  /\ UNCHANGED <<connVars, input, currentLineIsBlank, branchVars,
                 status, body, instrVars>>

\* client.stop() and the return of loop(): the connection and the locals
\* are gone, and the next call of loop() starts from fresh ones
Stop ==
  /\ pc = "stop"
  /\ pc' = "idle"
  /\ req' = [path |-> "/", hdr |-> ""]
  /\ input' = <<>>
  /\ sensors' = SensorsOf({})
  /\ HTTP_req' = EmptyBuf
  /\ i' = 0
  /\ currentLineIsBlank' = TRUE
  /\ parms' = NoParms
  /\ num_parms' = UNINIT
  /\ response' = UNINIT
  /\ status' = <<>>
  /\ doc' = "none"
  /\ body' = <<>>
  /\ route' = "none"
  /\ err' = 0
  /\ reads' = {}
  /\ uninit' = {}
  /\ parmWrites' = {}
  /\ labelBytes' = 0
  /\ UNCHANGED instrVars

Respond ==
  SendHeader \/ ServeRoot \/ ServeSensor \/ ServeReport \/ ServeNone \/ Finish \/ Stop

Next == Accept \/ ReadByte \/ Disconnect \/ Respond

Spec == Init /\ [][Next]_vars

(***************************************************************************)
(* InStr applied on its own to drawn arguments.                            *)
(***************************************************************************)
InitInStr ==
  /\ LoopInit
  /\ hay \in Strs(MaxHayLen)
  /\ needle \in Strs(MaxNeedleLen)
  /\ called = FALSE
  /\ found = FALSE

CallInStr ==
  /\ ~called
  /\ called' = TRUE
  /\ found' = InStr(hay, needle)
  /\ UNCHANGED <<pc, req, input, sensors, HTTP_req, i, currentLineIsBlank,
                 parms, num_parms, response, status, doc, body,
                 route, err, reads, uninit, parmWrites, labelBytes,
                 hay, needle>>

NextInStr == CallInStr

SpecInStr == InitInStr /\ [][NextInStr]_vars

(***************************************************************************)
(* Vocabulary of the properties.                                           *)
(***************************************************************************)
\* sub occurs in seq at position k (1-based)
OccursAt(seq, sub, k) ==
  /\ k + Len(sub) - 1 <= Len(seq)
  /\ \A m \in 1..Len(sub) : seq[k + m - 1] = sub[m]

Contains(seq, sub) == \E k \in 1..(Len(seq) + 1) : OccursAt(seq, sub, k)

\* the '/'-delimited segments of a path, empty ones dropped
RECURSIVE SplitFrom(_, _, _, _)
SplitFrom(path, k, cur, acc) ==
  IF k > Len(path)
    THEN IF cur = <<>> THEN acc ELSE Append(acc, cur)
    ELSE IF path[k] = "/"
           THEN SplitFrom(path, k + 1, <<>>,
                          IF cur = <<>> THEN acc ELSE Append(acc, cur))
           ELSE SplitFrom(path, k + 1, Append(cur, path[k]), acc)

Segments(path) == SplitFrom(Chars(path), 1, <<>>, <<>>)

HasPrefix(str, pre) == Len(str) >= Len(pre) /\ SubSeq(str, 1, Len(pre)) = pre

SensorName(n) == Chars("sensor") \o <<SubSeq("012345", n + 1, n + 1)>>
SensorNames == {SensorName(n) : n \in SensorIds}

\* the dispatcher returned: the segments it was handed, as the slots point
Dispatched == pc = "footer" /\ route = "sensor"
Seg(k) == CStr(HTTP_req, parms[k])
Segs == [k \in 1..num_parms |-> Seg(k - 1)]

\* the first bytes of the request, as far as the buffer takes them
Buffered == SubSeq(Bytes(req), 1, Min(Len(Bytes(req)), REQ_BUF_SZ - 1))
\* "GET /" occurs in the buffered bytes only where the request line starts
OneGet == \A k \in 2..Len(Buffered) : ~OccursAt(Buffered, Chars("GET /"), k)
\* the buffer holds the whole path and the space that ends it
PathBuffered == Len("GET ") + Len(req.path) + 1 <= REQ_BUF_SZ - 1

BadOption == num_parms > 2 /\ Seg(2) \notin {Chars("c"), Chars("f")}
BadSensor == Seg(0) \notin SensorNames
BadOperation == Seg(1) \notin {Chars("temp"), Chars("humidity")}

(***************************************************************************)
(* C1.  Every request whose end the loop has read is answered in full      *)
(* under the status line HTTP/1.1 200 OK, and no other status line is ever *)
(* written.  As a property of finite runs: every status line written is    *)
(* that one, and the loop never halts (position "fault", which no action   *)
(* leaves) on a connection whose document is not written to its end.       *)
(***************************************************************************)
C1_EveryRequestAnswered ==
  /\ \A k \in 1..Len(status) : status[k] = "HTTP/1.1 200 OK"
  /\ pc = "fault" => (doc = "closed" /\ status = <<"HTTP/1.1 200 OK">>)

(***************************************************************************)
(* C2.  With segment 0 = sensorN: [sensorN, temp] and [sensorN, temp, f]   *)
(* return sensor N's Fahrenheit reading, [sensorN, temp, c] its Celsius    *)
(* reading, [sensorN, humidity] its humidity reading, and that one read of *)
(* sensor N is the only sensor read made.                                  *)
(***************************************************************************)
C2_SensorReadings ==
  (Dispatched /\ num_parms >= 2) =>
    \A n \in SensorIds :
      /\ Segs \in {<<SensorName(n), Chars("temp")>>,
                   <<SensorName(n), Chars("temp"), Chars("f")>>}
           => response = sensors[n].tempF /\ reads = {<<n, "tempF">>}
      /\ Segs = <<SensorName(n), Chars("temp"), Chars("c")>>
           => response = sensors[n].tempC /\ reads = {<<n, "tempC">>}
      /\ Segs = <<SensorName(n), Chars("humidity")>>
           => response = sensors[n].humidity /\ reads = {<<n, "humidity">>}

C2_Witness ==
  /\ Dispatched
  /\ Segs = <<SensorName(3), Chars("temp")>>
  /\ response = Good(3, "tempF")

(***************************************************************************)
(* C3 as stated: each error condition that holds is the kind recorded, and *)
(* the value returned is 0.                                                *)
(***************************************************************************)
C3_EachKindRecorded ==
  (Dispatched /\ num_parms >= 2) =>
    /\ (BadOption => err = 2 /\ response = 0)
    /\ (BadSensor => err = 1 /\ response = 0)
    /\ (BadOperation => err = 3 /\ response = 0)

(***************************************************************************)
(* C3 as amended.  If any of the three error conditions holds, the value   *)
(* returned is 0, no sensor is read, and one kind is recorded:             *)
(* InvalidSensor (1) if segment 0 is no sensor name; otherwise             *)
(* InvalidOption (2) if the option is present and bad; otherwise           *)
(* InvalidOperation (3).                                                   *)
(***************************************************************************)
C3_ErrorPrecedence ==
  (Dispatched /\ num_parms >= 2 /\ (BadOption \/ BadSensor \/ BadOperation)) =>
    /\ response = 0
    /\ reads = {}
    /\ err = IF BadSensor THEN 1 ELSE IF BadOption THEN 2 ELSE 3

C3_Witness ==
  /\ Dispatched
  /\ Segs = <<Chars("sensor9"), Chars("temp"), Chars("k")>>
  /\ err = 1
  /\ response = 0

(***************************************************************************)
(* C4.  No field of a response body that carries a sensor reading is       *)
(* not-a-number: root and report items carry three readings each, the      *)
(* sensor branch carries one (taken here when the dispatcher read only     *)
(* slots that the tokenizer wrote).                                        *)
(***************************************************************************)
C4_NoNaNWritten ==
  /\ route \in {"root", "report"} =>
       \A k \in 1..Len(body) : \A m \in 2..4 : body[k][m] # NaN
  /\ (route = "sensor" /\ uninit = {}) =>
       \A k \in 1..Len(body) : body[k][1] # NaN

(***************************************************************************)
(* C5 as stated: path "/" takes the root branch, every path that begins    *)
(* "/report" the report branch, every path that begins "/s" the sensor     *)
(* branch.                                                                 *)
(***************************************************************************)
C5_RouteByPrefix ==
  pc \in {"footer", "fault"} =>
    /\ req.path = "/" => route = "root"
    /\ HasPrefix(req.path, "/report") => route = "report"
    /\ HasPrefix(req.path, "/s") => route = "sensor"

(***************************************************************************)
(* C5 as amended.  Path "/" takes the root branch.  When the buffered      *)
(* bytes hold "GET /" nowhere but at the start of the request line: the    *)
(* path that is exactly "/report" takes the report branch, a longer path   *)
(* that begins "/report" takes no branch, and every path that begins "/s"  *)
(* takes the sensor branch.                                                *)
(***************************************************************************)
C5_RouteClassification ==
  pc \in {"footer", "fault"} =>
    /\ req.path = "/" => route = "root"
    /\ OneGet =>
         /\ req.path = "/report" => route = "report"
         /\ (HasPrefix(req.path, "/report") /\ req.path # "/report")
              => route = "none"
         /\ HasPrefix(req.path, "/s") => route = "sensor"

C5_Witness ==
  /\ pc = "footer"
  /\ req.path = "/report"
  /\ OneGet
  /\ route = "report"

(***************************************************************************)
(* C6.  InStr returns true exactly when the needle occurs as a contiguous  *)
(* substring of the haystack (so true for the empty needle, false for a    *)
(* needle longer than the haystack).                                       *)
(***************************************************************************)
C6_InStrIsSubstring == called => (found <=> Contains(hay, needle))

(***************************************************************************)
(* C7.  For a request line whose path the buffer holds, with n segments:   *)
(* GetParms returns min(n, MAX_PARMS), the slots below the count point at  *)
(* the first min(n, MAX_PARMS) segments in order, and the slots written    *)
(* are exactly those below the count, none at MAX_PARMS or beyond.         *)
(***************************************************************************)
C7_Tokenizer ==
  (pc \in {"footer", "fault"} /\ route = "sensor" /\ PathBuffered) =>
    LET segs == Segments(req.path)
    IN  /\ num_parms = Min(Len(segs), MAX_PARMS)
        /\ Segs = SubSeq(segs, 1, Min(Len(segs), MAX_PARMS))
        /\ parmWrites = 0..(num_parms - 1)
        /\ parmWrites \subseteq 0..(MAX_PARMS - 1)

C7_Witness ==
  /\ Dispatched
  /\ req.path = "/s/a/b/c/d/e"
  /\ num_parms = 5
  /\ Segs = <<Chars("s"), Chars("a"), Chars("b"), Chars("c"), Chars("d")>>

(***************************************************************************)
(* C8 as stated: whatever the third segment, [sensorN, humidity, third]    *)
(* reads sensor N's humidity and returns it.                               *)
(***************************************************************************)
C8_HumidityAnyOption ==
  (Dispatched /\ num_parms >= 2) =>
    \A n \in SensorIds :
      (Seg(0) = SensorName(n) /\ Seg(1) = Chars("humidity"))
        => response = sensors[n].humidity /\ reads = {<<n, "humidity">>}

(***************************************************************************)
(* C8 as amended.  [sensorN, humidity] with the third segment absent, "c"  *)
(* or "f" reads sensor N's humidity and returns it; with any other third   *)
(* segment InvalidOption (2) is recorded, no sensor is read and 0 is       *)
(* returned.                                                               *)
(***************************************************************************)
C8_HumidityIgnoresUnit ==
  (Dispatched /\ num_parms >= 2) =>
    \A n \in SensorIds :
      (Seg(0) = SensorName(n) /\ Seg(1) = Chars("humidity")) =>
        IF BadOption
          THEN response = 0 /\ reads = {} /\ err = 2
          ELSE response = sensors[n].humidity /\ reads = {<<n, "humidity">>}

C8_Witness ==
  /\ Dispatched
  /\ Segs = <<SensorName(2), Chars("humidity"), Chars("c")>>
  /\ response = Good(2, "humidity")
  /\ reads = {<<2, "humidity">>}

(***************************************************************************)
(* C9.  Whenever the sensor branch runs, the tokenizer produced at least   *)
(* two segments and the dispatcher read no slot of parms that the          *)
(* tokenizer did not write.                                                *)
(***************************************************************************)
C9_SlotsWritten ==
  (pc \in {"footer", "fault"} /\ route = "sensor") =>
    num_parms >= 2 /\ uninit = {}

(***************************************************************************)
(* C10.  The bytes sprintf writes into label fit its declared size.        *)
(***************************************************************************)
C10_LabelFits == labelBytes <= LABEL_SZ

=============================================================================
